---- MODULE Spec2Model ----
(***************************************************************************)
(* Price-shock detection and news-attribution pipeline of the backend:     *)
(* get_stock_news (backend/main.py) and analyze_price_shock                *)
(* (backend/ai_service.py), under Spec.  The get_history endpoint and its  *)
(* flat-file marker cache under SpecHistory, generate_fundamental_analysis *)
(* under SpecTimeout, the in-process caches under SpecMemo, and the ratio  *)
(* helpers of backend/stock_data.py under SpecRatio.  Each specification   *)
(* leaves the variables of the others at rest.                             *)
(*                                                                         *)
(* Dates.  A 'time' string is modelled by a natural number, its rank in    *)
(* the lexicographic order of the strings; for a string that               *)
(* strptime("%Y-%m-%d") parses, the rank is also the day number of the     *)
(* date (zero-padded ISO strings sort like their dates).  A point carries  *)
(* ok = FALSE when strptime raises ValueError on its string.               *)
(*                                                                         *)
(* Prices are integers, so (curr - past) / past is compared with 0.05      *)
(* exactly: for operands this small the float quotient is never within     *)
(* rounding distance of the threshold unless it equals it.                 *)
(* 'change' is kept in hundredths of a percent: round(cum_return*100, 2).  *)
(***************************************************************************)
EXTENDS Integers, Sequences, FiniteSets, TLC

VARIABLES
    marketaux_token,    \* os.getenv("MARKETAUX_API_TOKEN") is set
    alpha_vantage_key,  \* os.getenv("ALPHA_VANTAGE_API_KEY") is set
    client,             \* ai_service.client is not None
    history_data,       \* the history argument
    cutoff_date,        \* datetime.now() - 730 days, as a day number
    pc,                 \* position of get_stock_news
    sorted_history,
    i,                  \* scan index (0-based, as in the code)
    shocks,
    top_shocks,
    k,                  \* position of the walk in top_shocks (1-based)
    existing_dates,
    news_list,
    response,           \* the last provider reply received
    shock_tasks,
    futures,            \* state of every submitted future
    analysis,           \* result of every finished future
    svc_reply,          \* what the reasoning service gave each task
    markers,
    returned,           \* what get_stock_news returned
    requests_log,       \* the requests.get calls made and their replies, in order
    accepted,           \* pivot dates that passed the deduplication test
    budget,             \* non-nominal replies the environment may still give
    \* get_history and the flat-file cache
    cache_file,         \* news_cache.json
    hist,               \* the get_history requests: locals and position of each
    \* generate_fundamental_analysis
    fa_pc,              \* position of the caller
    future,             \* state of the submitted _call_gemini
    waited,             \* seconds spent in future.result
    fa_result,          \* what the function returned
    \* ANALYSIS_CACHE / EVENT_CACHE
    which,              \* the cache the run is about
    now,                \* time.time()
    CACHE,              \* the cache's slot for the ticker
    memo,               \* the requests for the ticker: locals and position of each
    \* get_ps_ratio_from_info / safe_divide
    info,
    revenue_ttm,
    numerator,
    denominator,
    ratio_pc,
    ratio_result

news_vars == << marketaux_token, alpha_vantage_key, client, history_data,
                cutoff_date, pc, sorted_history, i, shocks, top_shocks, k,
                existing_dates, news_list, response, shock_tasks, futures,
                analysis, svc_reply, markers, returned, requests_log, accepted, budget >>
file_vars == << cache_file, hist >>
timeout_vars == << fa_pc, future, waited, fa_result >>
memo_vars == << which, now, CACHE, memo >>
ratio_vars == << info, revenue_ttm, numerator, denominator, ratio_pc, ratio_result >>

vars == << news_vars, file_vars, timeout_vars, memo_vars, ratio_vars >>

\* everything but the variables of get_stock_news
outside_news == << file_vars, timeout_vars, memo_vars, ratio_vars >>

-----------------------------------------------------------------------------
(* Program constants *)

\* a lookback of 13 points
LookbackWindowShort == 14 - 1

LookbackWindow == 14

\* a lookback of 13 points for the pivot
PivotLookbackWide == 10 + 3

PivotLookback == 10
TopK == 5
DedupDays == 3
ThinCoverage == 3
MaxWorkers == 5
NewsWindowBefore == 1
NewsWindowAfter == 1

(* Bounds of the model *)

MaxBlocks == 6
MaxFaults == 2

Missing == "MISSING"

-----------------------------------------------------------------------------
(* Generic helpers *)

Abs(x) == IF x < 0 THEN -x ELSE x

Max2(a, b) == IF a >= b THEN a ELSE b

Range(s) == { s[j] : j \in 1..Len(s) }

\* round(x) of the quotient num/den (den # 0) to the nearest integer, ties to
\* even, as Python's round() does on an exactly representable tie
RoundDiv(num, den) ==
    LET n == IF den < 0 THEN -num ELSE num
        d == Abs(den)
        a == Abs(n)
        q == a \div d
        r == a % d
        m == IF 2 * r > d \/ (2 * r = d /\ q % 2 = 1) THEN q + 1 ELSE q
    IN  IF n < 0 THEN -m ELSE m

-----------------------------------------------------------------------------
(* The history argument: the inputs the model draws *)

\* price step of block b under pattern pat, on a base price of 100
StepAt(pat, b) ==
    CASE pat = 1 -> << 6, 7, -8, 9, -10, 11, -12, 13 >>[((b - 1) % 8) + 1]
      [] pat = 2 -> << -6, 0, 7, -9, 8, 10, -11, 12 >>[((b - 1) % 8) + 1]
      [] OTHER   -> 4

RECURSIVE LevelAt(_, _)
LevelAt(pat, b) == IF b = 0 THEN 100 ELSE LevelAt(pat, b - 1) + StepAt(pat, b)

\* n points; the price is constant on blocks of 14 points and steps between
\* blocks; 'div' days share one date when div > 1; 'pert' perturbs one point
MkHistory(n, pat, div, pert) ==
    [ j \in 1..n |->
        LET base == LevelAt(pat, (j - 1) \div LookbackWindow)
            hit  == pert.pos = j
        IN  [ time  |-> 1000 + ((j - 1) \div div),
              ok    |-> ~(hit /\ pert.kind \in {"bad", "baddip"}),
              value |-> CASE hit /\ pert.kind = "zero" -> 0
                          [] hit /\ pert.kind \in {"dip", "baddip"} -> base - 3
                          [] hit /\ pert.kind = "peak" -> base + 3
                          [] OTHER -> base ] ]

NoPert == [pos |-> 0, kind |-> "none"]

Perts ==
    {NoPert} \cup
    { [pos |-> p, kind |-> kd] : p \in {1, 5, 8, 15}, kd \in {"bad", "zero", "dip", "peak", "baddip"} }

Reverse(s) == [ j \in 1..Len(s) |-> s[Len(s) + 1 - j] ]

\* one block, every perturbation
OneBlock ==
    { MkHistory(LookbackWindow + 1, pat, 1, p) : pat \in {1, 2, 3}, p \in Perts }

\* two blocks: distinct dates, repeated dates, unsorted input
TwoBlocks ==
    { MkHistory(2 * LookbackWindow + 1, pat, div, NoPert) : pat \in {1, 2}, div \in {1, 7} }
    \cup { Reverse(MkHistory(2 * LookbackWindow + 1, 1, 1, NoPert)) }

\* three blocks and more: up to MaxBlocks candidates
ManyBlocks ==
    { MkHistory(LookbackWindow * nb + 1, pat, div, NoPert) :
        nb \in 3..MaxBlocks, pat \in {1, 2}, div \in {1, 7} }

\* 14 daily points, the last one 10% above the others
ShortJump ==
    [ j \in 1..14 |-> [ time |-> 1000 + (j - 1), ok |-> TRUE,
                        value |-> IF j = 14 THEN 110 ELSE 100 ] ]

TooShort == { MkHistory(n, 1, 1, NoPert) : n \in {0, 1, 14} } \cup { ShortJump }

\* 29 daily points, by index (0-based): a fall of 6% from point 0 to point 14,
\* the highest of points 4..14 being point 14; then a rise from point 14 to
\* point 28, the lowest of points 18..28 being point 18
TightPivots ==
    [ j \in 1..29 |->
        [ time  |-> 1000 + (j - 1), ok |-> TRUE,
          value |-> CASE j = 1  -> 100
                      [] j = 15 -> 94
                      [] j = 16 -> 60
                      [] j = 19 -> 70
                      [] j > 19 -> 110
                      [] OTHER  -> 80 ] ]

Histories == TooShort \cup OneBlock \cup TwoBlocks \cup ManyBlocks \cup { TightPivots }

Cutoffs == {0, 1010}

-----------------------------------------------------------------------------
(* Shock detector: main.py 168-222 *)

\* sorted(history_data, key=lambda x: x['time']): stable, ascending.  The
\* element at position j goes behind every element with a smaller key and
\* every earlier element with the same key.
SortByTime(s) ==
    LET n == Len(s)
        place(j) == Cardinality({ m \in 1..n : s[m].time < s[j].time })
                    + Cardinality({ m \in 1..(j - 1) : s[m].time = s[j].time }) + 1
    IN  [ p \in 1..n |-> s[CHOOSE j \in 1..n : place(j) = p] ]

\* abs(cum_return) >= 0.05, with cum_return = (curr - past) / past
IsShock(curr, past) == 100 * Abs(curr - past) >= 5 * Abs(past)

\* cum_return > 0
IsJump(curr, past) == (curr - past) * past > 0

\* round(cum_return * 100, 2), in hundredths of a percent
ChangeOf(curr, past) == RoundDiv((curr - past) * 10000, past)

\* positions (1-based) of lookback_slice = sorted_history[max(0, i-10) : i+1]
LookbackSlice(idx) == (Max2(0, idx - PivotLookback) + 1) .. (idx + 1)

\* min(lookback_slice, key=value) / max(lookback_slice, key=value): the first
\* position of the slice holding the extreme value
PivotPos(h, idx, jump) ==
    LET S == LookbackSlice(idx)
        best(p) == \A q \in S : IF jump THEN h[p].value <= h[q].value
                                         ELSE h[p].value >= h[q].value
    IN  CHOOSE p \in S : best(p) /\ \A q \in S : best(q) => p <= q

ShockRecord(pivot, curr, past) ==
    [ date       |-> pivot.time,
      change     |-> ChangeOf(curr, past),
      value      |-> pivot.value,
      start_date |-> pivot.time - NewsWindowBefore,
      end_date   |-> pivot.time + NewsWindowAfter ]

-----------------------------------------------------------------------------
(* Event deduplicator: main.py 224-242 *)

\* shocks.sort(key=lambda x: abs(x['change']), reverse=True): stable, so
\* equal keys keep their order
SortByMagnitude(s) ==
    LET n == Len(s)
        place(j) == Cardinality({ m \in 1..n : Abs(s[m].change) > Abs(s[j].change) })
                    + Cardinality({ m \in 1..(j - 1) : Abs(s[m].change) = Abs(s[j].change) }) + 1
    IN  [ p \in 1..n |-> s[CHOOSE j \in 1..n : place(j) = p] ]

\* top_shocks.sort(key=lambda x: x['date'], reverse=True): stable
SortByDateDesc(s) ==
    LET n == Len(s)
        place(j) == Cardinality({ m \in 1..n : s[m].date > s[j].date })
                    + Cardinality({ m \in 1..(j - 1) : s[m].date = s[j].date }) + 1
    IN  [ p \in 1..n |-> s[CHOOSE j \in 1..n : place(j) = p] ]

\* shocks[-5:]: the wrong end of the ranking
TruncateLast(s) == SubSeq(s, IF Len(s) < TopK THEN 1 ELSE Len(s) - TopK + 1, Len(s))

\* no truncation
TruncateNone(s) == s

\* shocks[:5]
Truncate(s) == SubSeq(s, 1, IF Len(s) < TopK THEN Len(s) ELSE TopK)

TopShocks(s) == SortByDateDesc(Truncate(SortByMagnitude(s)))

\* the inner loop over existing_dates: abs((shock_dt - existing_dt).days) <= 3
IsTooClose(date, existing) ==
    \E j \in 1..Len(existing) : Abs(date - existing[j]) <= DedupDays

-----------------------------------------------------------------------------
(* News fetcher: main.py 244-309 *)

\* An optional string field is << >> when the key is absent or null (item.get
\* gives None) and << d >> when it holds the string of rank d.
NoDate == << >>

RawItem(score, date) == [dict |-> TRUE, scoreNull |-> FALSE, score |-> score, date |-> date]

\* an element of the body's list that is not an object: item.get raises
Garbage == [dict |-> FALSE, scoreNull |-> FALSE, score |-> 0, date |-> NoDate]

\* an object whose entity for the symbol has match_score null: score > 0.7 raises
NullScore == [dict |-> TRUE, scoreNull |-> TRUE, score |-> 0, date |-> NoDate]

Reply(status, exc, json, hasList, items) ==
    [status |-> status, exc |-> exc, json |-> json, hasList |-> hasList, items |-> items]

\* the reply that costs the environment nothing: 200 with three matching items
NominalPrimary ==
    Reply(200, FALSE, TRUE, TRUE, << RawItem(9, <<3>>), RawItem(8, <<1>>), RawItem(9, <<2>>) >>)

PrimaryReplies ==
    { NominalPrimary,
      Reply(500, FALSE, TRUE, TRUE, << RawItem(9, <<1>>) >>),
      Reply(429, FALSE, TRUE, FALSE, << >>),
      Reply(0, TRUE, FALSE, FALSE, << >>),
      Reply(200, FALSE, FALSE, FALSE, << >>),
      Reply(200, FALSE, TRUE, FALSE, << >>),
      Reply(200, FALSE, TRUE, TRUE, << >>),
      Reply(200, FALSE, TRUE, TRUE, << RawItem(9, <<1>>), RawItem(6, <<2>>), RawItem(8, <<2>>), RawItem(7, <<3>>) >>),
      Reply(200, FALSE, TRUE, TRUE, << RawItem(8, <<1>>), RawItem(8, <<2>>), RawItem(9, <<1>>), RawItem(9, <<3>>) >>),
      Reply(200, FALSE, TRUE, TRUE, << RawItem(9, <<2>>), Garbage, RawItem(9, <<3>>) >>),
      Reply(200, FALSE, TRUE, TRUE, << RawItem(8, NoDate), RawItem(8, <<1>>), NullScore >>),
      Reply(200, FALSE, TRUE, TRUE, << RawItem(8, <<1>>), RawItem(7, <<3>>), RawItem(9, <<2>>) >>) }

\* the secondary reply that costs nothing: a feed of one item
NominalSecondary == Reply(200, FALSE, TRUE, TRUE, << RawItem(5, <<2>>) >>)

SecondaryReplies ==
    { NominalSecondary,
      Reply(0, TRUE, FALSE, FALSE, << >>),
      Reply(200, FALSE, FALSE, FALSE, << >>),
      Reply(200, FALSE, TRUE, FALSE, << >>),
      Reply(200, FALSE, TRUE, TRUE, << RawItem(5, NoDate), RawItem(5, <<1>>) >>),
      Reply(200, FALSE, TRUE, TRUE, << RawItem(5, <<4>>), Garbage >>),
      Reply(503, FALSE, TRUE, TRUE, << RawItem(5, <<1>>) >>),
      Reply(200, FALSE, TRUE, TRUE, << RawItem(5, <<1>>), RawItem(5, <<3>>) >>) }

NewsItem(score, date) == [relevance_score |-> score, date |-> date]

\* a match score of 0.7 is enough
IsRelevantFrom07(score) == score >= 7

\* entity.get('match_score', 0) > 0.7, scores in tenths
IsRelevant(score) == score > 7

\* the loop over data["data"] (258-275); an exception inside it leaves the loop
\* with the items appended so far (278)
RECURSIVE KeepPrimary(_, _)
KeepPrimary(items, acc) ==
    IF items = << >> THEN acc
    ELSE LET it == Head(items) IN
         IF ~it.dict \/ it.scoreNull THEN acc
         ELSE KeepPrimary(Tail(items),
                          IF IsRelevant(it.score)
                              THEN Append(acc, NewsItem(it.score, it.date))
                              ELSE acc)

\* news_list after the Marketaux request (253-279)
PrimaryNews(r) ==
    IF r.exc THEN << >>
    ELSE IF r.status # 200 THEN << >>
    ELSE IF ~r.json THEN << >>
    ELSE IF ~r.hasList THEN << >>
    ELSE KeepPrimary(r.items, << >>)

\* the loop over data["feed"] (289-296)
RECURSIVE KeepSecondary(_, _)
KeepSecondary(items, acc) ==
    IF items = << >> THEN acc
    ELSE LET it == Head(items) IN
         IF ~it.dict THEN acc
         ELSE KeepSecondary(Tail(items), Append(acc, NewsItem(5, it.date)))

\* news_list after the Alpha Vantage request (285-298): the status is not read
SecondaryNews(r, acc) ==
    IF r.exc THEN acc
    ELSE IF ~r.json THEN acc
    ELSE IF ~r.hasList THEN acc
    ELSE KeepSecondary(r.items, acc)

\* len(news_list) <= 3 and alpha_vantage_key
NeedsSecondaryInclusive(list, key) == Len(list) <= ThinCoverage /\ key

\* len(news_list) < 3 and alpha_vantage_key
NeedsSecondary(list, key) == Len(list) < ThinCoverage /\ key

\* (relevance_score, date) tuples: a < b in Python, defined when the dates are
\* both strings or both None
KeyLess(a, b) ==
    \/ a.relevance_score < b.relevance_score
    \/ /\ a.relevance_score = b.relevance_score
       /\ a.date # NoDate /\ b.date # NoDate
       /\ a.date[1] < b.date[1]

\* comparing the keys of a and b raises TypeError (None against str)
KeyClash(a, b) ==
    /\ a.relevance_score = b.relevance_score
    /\ (a.date = NoDate) # (b.date = NoDate)

\* news_list.sort raises TypeError: on every list the replies drawn here can
\* produce, the sort compares a clashing pair exactly when the list holds one
SortRaises(list) ==
    \E a \in 1..Len(list), b \in 1..Len(list) : KeyClash(list[a], list[b])

\* news_list.sort(key=(relevance_score, date), reverse=True): stable
SortNews(s) ==
    LET n == Len(s)
        place(j) == Cardinality({ m \in 1..n : KeyLess(s[j], s[m]) })
                    + Cardinality({ m \in 1..(j - 1) :
                                      ~KeyLess(s[j], s[m]) /\ ~KeyLess(s[m], s[j]) }) + 1
    IN  [ p \in 1..n |-> s[CHOOSE j \in 1..n : place(j) = p] ]

ShockTask(shock, list) ==
    [ date     |-> shock.date,
      change   |-> shock.change,
      news     |-> SortNews(list),
      end_date |-> shock.end_date ]

-----------------------------------------------------------------------------
(* Shock classifier: ai_service.py 109-186 *)

Fallback == "No detailed AI summary available for this event"

\* str.strip() on the summaries and texts the model draws
Strip(str) ==
    CASE str = "   " -> ""
      [] str = " Earnings beat " -> "Earnings beat"
      [] OTHER -> str

\* What client.models.generate_content gave: kind "raise" (the call raised, or
\* timed out, or carried no text), "text" (a reply json.loads rejects),
\* "nondict" (JSON that is not an object) or "json" (a JSON object).  A field
\* of the object is Missing when the key is absent and "null" when it is null.
ServiceReply(kind, text, rel, headline, summary, sentiment) ==
    [ kind |-> kind, text |-> text, is_relevant |-> rel, headline |-> headline,
      summary |-> summary, sentiment |-> sentiment ]

JsonReply(rel, headline, summary, sentiment) ==
    ServiceReply("json", "", rel, headline, summary, sentiment)

\* no call was made
NotAsked == ServiceReply("none", "", Missing, Missing, Missing, Missing)

NominalService == JsonReply("true", "Acme beats estimates", "Earnings beat", "positive")

ServiceReplies ==
    { NominalService,
      ServiceReply("raise", "", Missing, Missing, Missing, Missing),
      ServiceReply("text", "NONE", Missing, Missing, Missing, Missing),
      ServiceReply("text", "   ", Missing, Missing, Missing, Missing),
      ServiceReply("nondict", "", Missing, Missing, Missing, Missing),
      JsonReply("false", "Stocks to watch", "Side mention", "neutral"),
      JsonReply("false", "Market Sentiment", "Broad sector rally", "Very Positive"),
      JsonReply("true", "Acme sued", " Earnings beat ", "negative"),
      JsonReply("true", "Acme beats estimates", "   ", "negative"),
      JsonReply("false", "Acme beats estimates", Missing, "positive"),
      JsonReply("true", "Acme beats estimates", "null", "positive"),
      JsonReply("true", "Acme beats estimates", "Earnings beat", "null"),
      JsonReply(Missing, Missing, "Earnings beat", Missing),
      JsonReply("null", "Acme beats estimates", "", "mixed") }

Result(rel, headline, summary, sentiment) ==
    [ raised |-> FALSE, is_relevant |-> rel, headline |-> headline,
      summary |-> summary, sentiment |-> sentiment ]

\* an exception leaving analyze_price_shock
Raised == [ raised |-> TRUE, is_relevant |-> Missing, headline |-> Missing,
            summary |-> Missing, sentiment |-> Missing ]

Unavailable == Result(Missing, "AI Unavailable", "API Key missing", "neutral")

\* the sentinel marked irrelevant
AnalysisFailedIrrelevant == Result("false", "AI Analysis Failed", Fallback, "neutral")

AnalysisFailed == Result(Missing, "AI Analysis Failed", Fallback, "neutral")

\* the parse without the outer handler and without the summary substitution
ParsedResultUnguarded(r) ==
    CASE r.kind = "text" -> Result(Missing, "AI Analysis", Strip(r.text), "neutral")
      [] r.kind = "nondict" -> Raised
      [] r.summary = "null" -> Raised
      [] OTHER -> Result(r.is_relevant, r.headline, r.summary, r.sentiment)

\* every unparsable text gives the fallback; an empty summary resets the sentiment
ParsedResultNeutral(r) ==
    CASE r.kind = "text" -> Result(Missing, "AI Analysis", Fallback, "neutral")
      [] r.kind = "nondict" -> AnalysisFailed
      [] r.summary = "null" -> AnalysisFailed
      [] OTHER ->
             LET summary == IF r.summary = Missing THEN "" ELSE Strip(r.summary)
             IN  Result(r.is_relevant, r.headline,
                        IF summary = "" THEN Fallback ELSE r.summary,
                        IF summary = "" THEN "neutral" ELSE r.sentiment)

\* the try block 160-178 on the stripped text
ParsedResult(r) ==
    CASE r.kind = "text" ->
             Result(Missing, "AI Analysis",
                    IF Strip(r.text) # "" THEN Strip(r.text) ELSE Fallback, "neutral")
      [] r.kind = "nondict" -> AnalysisFailed    \* data.get: AttributeError, 180
      [] r.summary = "null" -> AnalysisFailed    \* None.strip(): AttributeError, 180
      [] OTHER ->
             LET summary == IF r.summary = Missing THEN "" ELSE Strip(r.summary)
             IN  Result(r.is_relevant, r.headline,
                        IF summary = "" THEN Fallback ELSE r.summary, r.sentiment)

\* the call's exception is not caught
AnalyzePriceShockPropagates(hasClient, r) ==
    IF ~hasClient THEN Unavailable
    ELSE IF r.kind = "raise" THEN Raised
    ELSE ParsedResult(r)

AnalyzePriceShock(hasClient, r) ==
    IF ~hasClient THEN Unavailable
    ELSE IF r.kind = "raise" THEN AnalysisFailed
    ELSE ParsedResult(r)

-----------------------------------------------------------------------------
(* Parallel dispatcher: main.py 311-361 *)

\* process_shock_task (316-328): None when analyze_price_shock raised
NoAnalysis == [ none |-> TRUE, raised |-> FALSE, is_relevant |-> Missing,
                headline |-> Missing, summary |-> Missing, sentiment |-> Missing,
                shock_date |-> 0 ]

ProcessShockTask(task, hasClient, r) ==
    LET res == AnalyzePriceShock(hasClient, r)
    IN  IF res.raised THEN NoAnalysis
        ELSE [ none |-> FALSE, raised |-> FALSE, is_relevant |-> res.is_relevant,
               headline |-> res.headline, summary |-> res.summary,
               sentiment |-> res.sentiment, shock_date |-> task.date ]

\* not x, for the summaries of the model
IsEmpty(summary) == summary \in {Missing, "null", ""}

\* the relevance test left out
AdmittedAnyRelevance(a) == ~a.none /\ ~IsEmpty(a.summary)

\* the three 'continue' tests of the collector (335-340), negated
Admitted(a) ==
    /\ ~a.none
    /\ ~(a.is_relevant = "false" /\ a.headline # "Market Sentiment")
    /\ ~IsEmpty(a.summary)

\* analysis.get('sentiment', 'neutral').lower() raises AttributeError on null
SentimentRaises(a) == a.sentiment = "null"

\* str.lower() on the sentiments of the model
Lower(str) == IF str = "Very Positive" THEN "very positive" ELSE str

\* 'positive' in sentiment / 'negative' in sentiment
Contains(str, word) == str = word \/ (str = "very positive" /\ word = "positive")

Sentiment(a) == Lower(IF a.sentiment = Missing THEN "neutral" ELSE a.sentiment)

MarkerOf(a) ==
    LET st == Sentiment(a)
        style == IF Contains(st, "positive") THEN << "#22c55e", "belowBar" >>
                 ELSE IF Contains(st, "negative") THEN << "#ef4444", "aboveBar" >>
                 ELSE << "#fbbf24", "aboveBar" >>
    IN  [ time |-> a.shock_date, text |-> "", label |-> "N", color |-> style[1],
          shape |-> "circle", position |-> style[2], headline |-> a.summary ]

mock_markers ==
    << [ time |-> 2025, text |-> "Mock: Positive Earnings Surprise", label |-> "N",
         color |-> "#22c55e", shape |-> "circle", position |-> "belowBar",
         headline |-> "Mock Headline" ],
       [ time |-> 2020, text |-> "Mock: CEO Keynote Speech", label |-> "N",
         color |-> "#fbbf24", shape |-> "circle", position |-> "aboveBar",
         headline |-> "Mock Headline" ] >>

-----------------------------------------------------------------------------
(* The parts at rest *)

\* a dict without keys
EmptyDict == [ key \in {} |-> << >> ]

\* no cache file, no get_history request
FileIdle ==
    /\ cache_file = [ state |-> "absent", entries |-> EmptyDict, size |-> 0 ]
    /\ hist = << >>

\* generate_fundamental_analysis is not called
TimeoutIdle ==
    /\ fa_pc = "idle" /\ future = "none" /\ waited = 0 /\ fa_result = "none"

\* no request to the cached endpoints
MemoIdle ==
    /\ which = "none" /\ now = 0 /\ CACHE = << >> /\ memo = << >>

\* the ratio helpers are not called
RatioIdle ==
    /\ info = EmptyDict /\ revenue_ttm = << >>
    /\ numerator = << >> /\ denominator = << >>
    /\ ratio_pc = "idle" /\ ratio_result = << >>

-----------------------------------------------------------------------------
(* The state machine of get_stock_news *)

\* The runs the model draws: configuration, history, cutoff and the number of
\* non-nominal replies the environment may give.  Every configuration is run
\* on the short histories and on one history of each length; every history
\* is run with both providers and the client configured.  On the histories of
\* three blocks and more the environment gives nominal replies only.
Scenario(ma, av, cl, h, cut) ==
    [ ma |-> ma, av |-> av, cl |-> cl, h |-> h, cut |-> cut,
      budget |-> IF h \in ManyBlocks THEN 0 ELSE MaxFaults ]

Scenarios ==
    { Scenario(ma, av, cl, h, cut) :
        ma \in BOOLEAN, av \in BOOLEAN, cl \in BOOLEAN, cut \in Cutoffs,
        h \in TooShort \cup { MkHistory(LookbackWindow + 1, 1, 1, NoPert),
                              MkHistory(2 * LookbackWindow + 1, 1, 7, NoPert) } }
    \cup { Scenario(TRUE, TRUE, TRUE, h, 0) : h \in Histories }

NoReply == Reply(0, FALSE, FALSE, FALSE, << >>)

Init ==
    \E sc \in Scenarios :
        /\ marketaux_token = sc.ma
        /\ alpha_vantage_key = sc.av
        /\ client = sc.cl
        /\ history_data = sc.h
        /\ cutoff_date = sc.cut
        /\ pc = "start"
        /\ sorted_history = << >>
        /\ i = 0
        /\ shocks = << >>
        /\ top_shocks = << >>
        /\ k = 0
        /\ existing_dates = << >>
        /\ news_list = << >>
        /\ response = NoReply
        /\ shock_tasks = << >>
        /\ futures = << >>
        /\ analysis = << >>
        /\ svc_reply = << >>
        /\ markers = << >>
        /\ returned = << >>
        /\ requests_log = << >>
        /\ accepted = << >>
        /\ budget = sc.budget
        /\ FileIdle /\ TimeoutIdle /\ MemoIdle /\ RatioIdle

config_vars == << marketaux_token, alpha_vantage_key, client, history_data, cutoff_date >>
scan_vars == << sorted_history, i, shocks >>
walk_vars == << top_shocks, k, existing_dates, news_list, response, shock_tasks,
                requests_log, accepted >>
pool_vars == << futures, analysis, svc_reply, markers >>

\* a history of fewer than 2 points gets the mock markers
EntryMockWhenShort(ma, av, h) ==
    IF (~ma /\ ~av) \/ Len(h) < 2 THEN "mock" ELSE "scan"

\* the length test comes before the token test
EntryLengthFirst(ma, av, h) ==
    IF Len(h) < 2 THEN "empty"
    ELSE IF ~ma /\ ~av THEN "mock"
    ELSE "scan"

\* 157-166: the mock short-circuit, then the test `not history_data or
\* len(history_data) < 2` (None and [] are both the empty sequence here)
Entry(ma, av, h) ==
    IF ~ma /\ ~av THEN "mock"
    ELSE IF Len(h) < 2 THEN "empty"
    ELSE "scan"

\* 149-173: the mock short-circuit, the length test, the sort
Start ==
    /\ pc = "start"
    /\ LET entry == Entry(marketaux_token, alpha_vantage_key, history_data)
       IN  IF entry = "mock"
             THEN /\ returned' = mock_markers
                  /\ pc' = "done"
                  /\ UNCHANGED scan_vars
           ELSE IF entry = "empty"
             THEN /\ returned' = << >>
                  /\ pc' = "done"
                  /\ UNCHANGED scan_vars
           ELSE /\ sorted_history' = SortByTime(history_data)
                /\ i' = LookbackWindow
                /\ shocks' = << >>
                /\ pc' = "scan"
                /\ UNCHANGED returned
    /\ UNCHANGED << config_vars, walk_vars, pool_vars, budget >>
    /\ UNCHANGED outside_news

\* 174-222: one iteration of the scan loop
ScanStep ==
    /\ pc = "scan"
    /\ i < Len(sorted_history)
    /\ LET current_data == sorted_history[i + 1]
           past_data    == sorted_history[i - LookbackWindow + 1]
           curr_price   == current_data.value
           past_price   == past_data.value
           jump         == IsJump(curr_price, past_price)
           pivot_day    == sorted_history[PivotPos(sorted_history, i, jump)]
       IN  IF ~current_data.ok \/ current_data.time < cutoff_date \/ past_price = 0
             THEN /\ i' = i + 1
                  /\ UNCHANGED << pc, shocks >>
           ELSE IF ~IsShock(curr_price, past_price)
             THEN /\ i' = i + 1
                  /\ UNCHANGED << pc, shocks >>
           ELSE IF ~pivot_day.ok
             THEN /\ pc' = "raised"        \* strptime at 209: ValueError
                  /\ UNCHANGED << i, shocks >>
           ELSE /\ shocks' = Append(shocks, ShockRecord(pivot_day, curr_price, past_price))
                /\ i' = i + LookbackWindow
                /\ UNCHANGED pc
    /\ UNCHANGED << config_vars, sorted_history, walk_vars, pool_vars, returned, budget >>
    /\ UNCHANGED outside_news

\* 224-229: rank, truncate, re-sort
Rank ==
    /\ pc = "scan"
    /\ i >= Len(sorted_history)
    /\ shocks' = SortByMagnitude(shocks)       \* sorted in place
    /\ top_shocks' = TopShocks(shocks)
    /\ k' = 1
    /\ pc' = "walk"
    /\ UNCHANGED << config_vars, sorted_history, i, existing_dates, news_list, response,
                    shock_tasks, requests_log, accepted, pool_vars, returned, budget >>
    /\ UNCHANGED outside_news

\* 231-249: the deduplication test on the next candidate
WalkStep ==
    /\ pc = "walk"
    /\ k <= Len(top_shocks)
    /\ IF IsTooClose(top_shocks[k].date, existing_dates)
          THEN /\ k' = k + 1
               /\ UNCHANGED << pc, news_list, accepted >>
          ELSE /\ news_list' = << >>
               /\ accepted' = Append(accepted, top_shocks[k].date)
               /\ pc' = "primary"
               /\ UNCHANGED k
    /\ UNCHANGED << config_vars, scan_vars, top_shocks, existing_dates, response,
                    shock_tasks, requests_log, pool_vars, returned, budget >>
    /\ UNCHANGED outside_news

Cost(r, nominal) == IF r = nominal THEN 0 ELSE 1

\* a requests.get call: the provider, the event (position in top_shocks) and
\* pivot date it was made for, and the reply it got
Request(provider, event, date, r) ==
    [provider |-> provider, event |-> event, date |-> date, reply |-> r]

\* 251-279: the Marketaux request
Primary ==
    /\ pc = "primary"
    /\ IF marketaux_token
          THEN \E r \in PrimaryReplies :
                 /\ Cost(r, NominalPrimary) <= budget
                 /\ budget' = budget - Cost(r, NominalPrimary)
                 /\ response' = r
                 /\ requests_log' = Append(requests_log, Request("marketaux", k, top_shocks[k].date, r))
                 /\ news_list' = PrimaryNews(r)
          ELSE UNCHANGED << budget, response, requests_log, news_list >>
    /\ pc' = "secondary"
    /\ UNCHANGED << config_vars, scan_vars, top_shocks, k, existing_dates,
                    shock_tasks, accepted, pool_vars, returned >>
    /\ UNCHANGED outside_news

\* 281-298: the Alpha Vantage request
Secondary ==
    /\ pc = "secondary"
    /\ IF NeedsSecondary(news_list, alpha_vantage_key)
          THEN \E r \in SecondaryReplies :
                 /\ Cost(r, NominalSecondary) <= budget
                 /\ budget' = budget - Cost(r, NominalSecondary)
                 /\ response' = r
                 /\ requests_log' = Append(requests_log, Request("alphavantage", k, top_shocks[k].date, r))
                 /\ news_list' = SecondaryNews(r, news_list)
          ELSE UNCHANGED << budget, response, requests_log, news_list >>
    /\ pc' = "enqueue"
    /\ UNCHANGED << config_vars, scan_vars, top_shocks, k, existing_dates,
                    shock_tasks, accepted, pool_vars, returned >>
    /\ UNCHANGED outside_news

\* every list counts as news
HasNewsAlways(list) == TRUE

\* 300: `not news_list`, negated
HasNews(list) == list # << >>

\* 300-309: drop the event without news, else sort and queue the task
Enqueue ==
    /\ pc = "enqueue"
    /\ IF ~HasNews(news_list)
          THEN /\ k' = k + 1
               /\ pc' = "walk"
               /\ UNCHANGED shock_tasks
          ELSE IF SortRaises(news_list)
          THEN /\ pc' = "raised"          \* TypeError at 302
               /\ UNCHANGED << k, shock_tasks >>
          ELSE /\ shock_tasks' = Append(shock_tasks, ShockTask(top_shocks[k], news_list))
               /\ k' = k + 1
               /\ pc' = "walk"
    /\ UNCHANGED << config_vars, scan_vars, top_shocks, existing_dates, news_list,
                    response, requests_log, accepted, pool_vars, returned, budget >>
    /\ UNCHANGED outside_news

\* all tasks but the last are submitted
SubmitAllButLast(tasks) == [ t \in 1..(Len(tasks) - 1) |-> "pending" ]

\* 331: one executor.submit per element of shock_tasks; futures[t] is the
\* future of shock_tasks[t]
SubmitAll(tasks) == [ t \in 1..Len(tasks) |-> "pending" ]

\* 312, 330-331: no task: return; else submit every task to the pool
Submit ==
    /\ pc = "walk"
    /\ k > Len(top_shocks)
    /\ IF shock_tasks = << >>
          THEN /\ returned' = markers
               /\ pc' = "done"
               /\ UNCHANGED << futures, analysis, svc_reply >>
          ELSE /\ futures' = SubmitAll(shock_tasks)
               /\ analysis' = [ t \in 1..Len(shock_tasks) |-> NoAnalysis ]
               /\ svc_reply' = [ t \in 1..Len(shock_tasks) |-> NotAsked ]
               /\ pc' = "collect"
               /\ UNCHANGED returned
    /\ UNCHANGED << config_vars, scan_vars, walk_vars, markers, budget >>
    /\ UNCHANGED outside_news

Running == { t \in 1..Len(futures) : futures[t] = "running" }

\* a pool thread takes a queued task
StartTask(t) ==
    /\ pc = "collect"
    /\ futures[t] = "pending"
    /\ Cardinality(Running) < MaxWorkers
    /\ futures' = [futures EXCEPT ![t] = "running"]
    /\ UNCHANGED << config_vars, scan_vars, walk_vars, analysis, svc_reply, markers,
                    returned, pc, budget >>
    /\ UNCHANGED outside_news

\* process_shock_task returns in its thread
FinishTask(t) ==
    /\ pc = "collect"
    /\ futures[t] = "running"
    /\ IF client
          THEN \E r \in ServiceReplies :
                 /\ Cost(r, NominalService) <= budget
                 /\ budget' = budget - Cost(r, NominalService)
                 /\ svc_reply' = [svc_reply EXCEPT ![t] = r]
                 /\ analysis' = [analysis EXCEPT ![t] = ProcessShockTask(shock_tasks[t], TRUE, r)]
          ELSE /\ analysis' = [analysis EXCEPT ![t] = ProcessShockTask(shock_tasks[t], FALSE, NotAsked)]
               /\ UNCHANGED << budget, svc_reply >>
    /\ futures' = [futures EXCEPT ![t] = "done"]
    /\ UNCHANGED << config_vars, scan_vars, walk_vars, markers, returned, pc >>
    /\ UNCHANGED outside_news

\* the list is replaced by the new marker
EmitReplacing(list, a) == << MarkerOf(a) >>

\* 350-358: markers.append
Emit(list, a) == Append(list, MarkerOf(a))

\* 333-359: the coordinating thread takes one completed future
Collect(t) ==
    /\ pc = "collect"
    /\ futures[t] = "done"
    /\ IF ~Admitted(analysis[t])
          THEN /\ futures' = [futures EXCEPT ![t] = "dropped"]
               /\ UNCHANGED << markers, existing_dates, pc >>
          ELSE IF SentimentRaises(analysis[t])
          THEN /\ pc' = "raised"          \* AttributeError at 342
               /\ UNCHANGED << futures, markers, existing_dates >>
          ELSE /\ markers' = Emit(markers, analysis[t])
               /\ existing_dates' = Append(existing_dates, analysis[t].shock_date)
               /\ futures' = [futures EXCEPT ![t] = "emitted"]
               /\ UNCHANGED pc
    /\ UNCHANGED << config_vars, scan_vars, top_shocks, k, news_list, response,
                    shock_tasks, requests_log, accepted, analysis, svc_reply, returned,
                    budget >>
    /\ UNCHANGED outside_news

\* 361: every future was consumed
Return ==
    /\ pc = "collect"
    /\ \A t \in 1..Len(futures) : futures[t] \in {"emitted", "dropped"}
    /\ returned' = markers
    /\ pc' = "done"
    /\ UNCHANGED << config_vars, scan_vars, walk_vars, pool_vars, budget >>
    /\ UNCHANGED outside_news

Next ==
    \/ Start
    \/ ScanStep
    \/ Rank
    \/ WalkStep
    \/ Primary
    \/ Secondary
    \/ Enqueue
    \/ Submit
    \/ \E t \in 1..Len(futures) : StartTask(t)
    \/ \E t \in 1..Len(futures) : FinishTask(t)
    \/ \E t \in 1..Len(futures) : Collect(t)
    \/ Return

Spec == Init /\ [][Next]_vars

-----------------------------------------------------------------------------
(* Properties *)

Finished(t) == futures[t] \in {"done", "emitted", "dropped"}

Collected(t) == futures[t] \in {"emitted", "dropped"}

Tasks == 1..Len(futures)

\* the candidates were ranked (224-226 ran)
Ranked == k >= 1

\* C1: get_stock_news never raises an exception to its caller, whatever the
\* history (unparsable dates included) and whatever the providers and the
\* classifier reply (missing or null fields included).
C1_NeverRaises == pc # "raised"

\* C2: no two shock events dispatched to the classifier, and no two emitted
\* markers, have pivot dates within 3 days of each other.
C2_NoClosePivots ==
    /\ \A a, b \in 1..Len(shock_tasks) :
           a # b => Abs(shock_tasks[a].date - shock_tasks[b].date) > DedupDays
    /\ \A a, b \in 1..Len(markers) :
           a # b => Abs(markers[a].time - markers[b].time) > DedupDays

\* the walk the specification describes: a date is accepted unless it is
\* within 3 days of a date accepted before it
RECURSIVE GreedyAccept(_, _)
GreedyAccept(dates, acc) ==
    IF dates = << >> THEN acc
    ELSE GreedyAccept(Tail(dates),
                      IF \E j \in 1..Len(acc) : Abs(Head(dates) - acc[j]) <= DedupDays
                          THEN acc ELSE Append(acc, Head(dates)))

TopDates == [ j \in 1..Len(top_shocks) |-> top_shocks[j].date ]

\* C3: in the walk over the top candidates in date-descending order a candidate
\* is accepted unless its pivot date is within 3 days of a candidate accepted
\* earlier in the walk, so of two candidates 2 days apart only the more recent
\* one survives.
C3_WalkIsGreedy ==
    \E n \in 0..Len(top_shocks) : accepted = GreedyAccept(SubSeq(TopDates, 1, n), << >>)

NonIncreasing(s) == \A a, b \in 1..Len(s) : a < b => s[a] >= s[b]

\* C4: at most 5 candidates go on to the news fetch; they are the 5 of largest
\* |percent_change| (no smaller one is kept while a larger one is dropped);
\* they are processed and queued in pivot-date-descending order.
C4_TopFiveByMagnitude ==
    Ranked =>
        /\ Len(top_shocks) <= TopK
        /\ pc # "raised" \/ futures # << >> \/ top_shocks # << >> =>
               Len(top_shocks) = IF Len(shocks) < TopK THEN Len(shocks) ELSE TopK
        /\ Range(top_shocks) \subseteq Range(shocks)
        /\ \A s \in Range(shocks) \ Range(top_shocks) :
               \A t \in Range(top_shocks) : Abs(t.change) >= Abs(s.change)
        /\ NonIncreasing(TopDates)
        /\ Len(accepted) <= TopK
        /\ NonIncreasing(accepted)
        /\ NonIncreasing([ j \in 1..Len(requests_log) |-> requests_log[j].date ])
        /\ NonIncreasing([ j \in 1..Len(shock_tasks) |-> shock_tasks[j].date ])

\* six candidates were detected, five were fetched and classified
C4_Witness ==
    /\ pc = "done"
    /\ Len(shocks) > TopK
    /\ Len(accepted) = TopK
    /\ Len(shock_tasks) = TopK
    /\ Len(markers) = TopK

EmittedTasks == { t \in Tasks : futures[t] = "emitted" }

\* the marker of task t is in the list
HasMarker(t) ==
    \E m \in 1..Len(markers) :
        /\ markers[m].time = shock_tasks[t].date
        /\ markers[m].headline = analysis[t].summary

CallFailed(t) == svc_reply[t].kind = "raise"

\* C6 as stated: when the classification of one event fails, that event is
\* dropped: no Marker is emitted for it.
C6_FailedEventDropped == \A t \in Tasks : CallFailed(t) => futures[t] # "emitted"

\* C6 as amended: when the reasoning-service call of one event fails, the event
\* is not dropped: its result is the 'AI Analysis Failed' sentinel and, once
\* collected, it yields an amber/aboveBar Marker carrying the fallback summary;
\* the batch is not aborted: on return every task was collected and every task
\* with a nominal reply has its Marker.
C6_FailedEventKept ==
    /\ \A t \in Tasks : CallFailed(t) =>
           /\ futures[t] # "dropped"
           /\ Finished(t) => analysis[t].headline = "AI Analysis Failed"
           /\ futures[t] = "emitted" =>
                  \E m \in 1..Len(markers) :
                      /\ markers[m].time = shock_tasks[t].date
                      /\ markers[m].headline = Fallback
                      /\ markers[m].color = "#fbbf24"
                      /\ markers[m].position = "aboveBar"
    /\ pc = "done" /\ (\E t \in Tasks : CallFailed(t)) =>
           /\ returned = markers
           /\ \A u \in Tasks : Collected(u)
           /\ \A u \in Tasks : svc_reply[u] = NominalService =>
                  futures[u] = "emitted" /\ HasMarker(u)

\* the batch returned: the failed event and a classified one both have a Marker
C6_Witness ==
    /\ pc = "done"
    /\ \E t, u \in Tasks :
           /\ CallFailed(t) /\ futures[t] = "emitted"
           /\ svc_reply[u] = NominalService /\ futures[u] = "emitted"

\* the reply leaves analyze_price_shock nothing to use: the call raised, or the
\* text parsed to a value that is not an object or whose summary is null
Unusable(r) == r.kind \in {"raise", "nondict"} \/ (r.kind = "json" /\ r.summary = "null")

\* C7: analyze_price_shock never propagates an error: if the call raises or the
\* reply parses to something unusable it returns the 'AI Analysis Failed'
\* sentinel with sentiment neutral, and the worker task completes normally.
C7_NeverPropagates ==
    \A t \in Tasks : Finished(t) =>
        /\ ~analysis[t].none
        /\ analysis[t].shock_date = shock_tasks[t].date
        /\ client /\ Unusable(svc_reply[t]) =>
               /\ analysis[t].headline = "AI Analysis Failed"
               /\ analysis[t].summary = Fallback
               /\ analysis[t].sentiment = "neutral"

\* a call raised and a reply parsed to a non-object; both tasks finished
C7_Witness ==
    \E t, u \in Tasks :
        /\ Finished(t) /\ svc_reply[t].kind = "raise"
        /\ Finished(u) /\ svc_reply[u].kind \in {"nondict", "json"} /\ Unusable(svc_reply[u])

\* C8: every result returned by analyze_price_shock, on every path (client
\* missing, reply parsed as JSON, reply not JSON, call failed), has a
\* non-empty summary.
C8_SummaryNeverEmpty ==
    \A t \in Tasks : Finished(t) =>
        /\ analysis[t].summary \notin {Missing, "null", ""}
        /\ Strip(analysis[t].summary) # ""

\* a JSON reply with a blank or absent summary and a blank non-JSON reply were
\* both turned into results
C8_Witness ==
    \E t, u \in Tasks :
        /\ Finished(t) /\ svc_reply[t].kind = "json"
        /\ svc_reply[t].summary \in {Missing, "", "   "}
        /\ Finished(u) /\ svc_reply[u].kind = "text" /\ Strip(svc_reply[u].text) = ""

\* the requests made for the event the walk is at
RequestsNow(provider) ==
    { j \in 1..Len(requests_log) :
        requests_log[j].provider = provider /\ requests_log[j].event = k }

Queried(provider) == RequestsNow(provider) # {}

ReplyNow(provider) == requests_log[CHOOSE j \in RequestsNow(provider) : TRUE].reply

Broken(it) == ~it.dict \/ it.scoreNull

\* a provider failure: error status, network exception or malformed body
Failure(provider, r) ==
    r.exc \/ r.status # 200 \/ ~r.json \/ ~r.hasList
    \/ \E j \in 1..Len(r.items) : Broken(r.items[j])

\* items of news_list that came from the primary (match score above 0.7) and
\* from the secondary (fixed score 0.5)
PrimaryKept == Cardinality({ j \in 1..Len(news_list) : news_list[j].relevance_score > 7 })
SecondaryKept == Cardinality({ j \in 1..Len(news_list) : news_list[j].relevance_score = 5 })

\* C9 as stated: a provider failure (non-200 status, HTTP 429, network
\* exception, malformed body) counts as zero items from that provider for the
\* event, and never aborts the walk over the remaining events.
C9_FailureIsZeroItems ==
    /\ pc = "secondary" /\ Queried("marketaux") /\ Failure("marketaux", ReplyNow("marketaux"))
           => news_list = << >>
    /\ pc = "enqueue" /\ Queried("alphavantage") /\ Failure("alphavantage", ReplyNow("alphavantage"))
           => SecondaryKept = 0
    /\ ~(pc = "raised" /\ Ranked /\ futures = << >>)

\* the request as a whole failed: network exception, error status, body that
\* is not JSON or lacks the list
WholeFailure(provider, r) ==
    r.exc \/ (provider = "marketaux" /\ r.status # 200) \/ ~r.json \/ ~r.hasList

\* the number of items the primary returned for the event the walk is at
Returned ==
    IF Queried("marketaux") /\ ~WholeFailure("marketaux", ReplyNow("marketaux"))
        THEN Len(ReplyNow("marketaux").items) ELSE 0

\* C10 as stated: the secondary provider is queried if and only if it is
\* configured and the primary returned fewer than 3 items.
C10_SecondaryIffFewReturned ==
    pc = "enqueue" =>
        (Queried("alphavantage") <=> alpha_vantage_key /\ Returned < ThinCoverage)

\* C10 as amended: the secondary provider is queried, once, if and only if it
\* is configured and fewer than 3 items of the primary were kept (entity match
\* score above 0.7); it is never queried before the primary.
C10_SecondaryIffFewKept ==
    /\ pc = "enqueue" =>
           /\ Queried("alphavantage") <=> alpha_vantage_key /\ PrimaryKept < ThinCoverage
           /\ Cardinality(RequestsNow("alphavantage")) <= 1
    /\ pc = "secondary" => ~Queried("alphavantage")
    /\ \A j \in 1..Len(requests_log) : requests_log[j].provider = "alphavantage" => alpha_vantage_key

\* the first event kept 4 primary items and made no secondary request; the
\* second kept 2 and made one
C10_Witness ==
    /\ pc = "enqueue" /\ k = 2
    /\ PrimaryKept = 2 /\ Queried("alphavantage")
    /\ \E a \in 1..Len(requests_log) :
           /\ requests_log[a].event = 1 /\ requests_log[a].provider = "marketaux"
           /\ Len(PrimaryNews(requests_log[a].reply)) = 4
    /\ \A a \in 1..Len(requests_log) :
           requests_log[a].event = 1 => requests_log[a].provider = "marketaux"

\* how far a future has got: queued, in a pool thread, completed, consumed
Stage(f) ==
    CASE f = "pending" -> 0
      [] f = "running" -> 1
      [] f = "done"    -> 2
      [] OTHER         -> 3

\* classifier calls in flight
InFlight == { t \in 1..Len(futures) : Stage(futures[t]) = 1 }

\* C11: the dispatcher never has more than 5 classifier calls in flight at
\* the same time, and every queued shock task is submitted exactly once: there
\* is one future per task, and each future is started once, completes once
\* with the analysis of its own task, and is consumed once.
C11_BoundedPool ==
    /\ [](/\ Cardinality(InFlight) <= 5
          /\ pc = "collect" => Len(futures) = Len(shock_tasks)
          /\ pc = "done" /\ shock_tasks # << >> =>
                 /\ Len(futures) = Len(shock_tasks)
                 /\ \A t \in 1..Len(futures) : Stage(futures[t]) = 3
          /\ \A t \in 1..Len(futures) :
                 Stage(futures[t]) >= 2 /\ analysis[t] # NoAnalysis =>
                     analysis[t].shock_date = shock_tasks[t].date)
    /\ [][\A t \in 1..Len(futures) :
              /\ Len(futures') = Len(futures)
              /\ Stage(futures'[t]) \in { Stage(futures[t]), Stage(futures[t]) + 1 }]_vars

\* five classifier calls are in flight at once
C11_Witness == Cardinality(InFlight) = 5 /\ Len(shock_tasks) = 5

\* neither news-provider token is configured
NoTokens == ~marketaux_token /\ ~alpha_vantage_key

\* C12: when neither news-provider token is configured, get_stock_news
\* returns exactly the two static mock markers for every history argument, and
\* performs no shock detection, no provider request and no classifier call.
C12_MockShortCircuit ==
    NoTokens =>
        /\ pc \in {"start", "done"}
        /\ pc = "done" =>
               /\ Len(returned) = 2
               /\ returned[1].text = "Mock: Positive Earnings Surprise"
               /\ returned[2].text = "Mock: CEO Keynote Speech"
               /\ returned = mock_markers
        /\ sorted_history = << >> /\ i = 0 /\ shocks = << >> /\ top_shocks = << >>
        /\ requests_log = << >>
        /\ shock_tasks = << >> /\ futures = << >> /\ svc_reply = << >> /\ markers = << >>

\* the mock markers were returned for a history that holds a shock
C12_Witness ==
    /\ NoTokens /\ pc = "done" /\ returned = mock_markers
    /\ Len(history_data) > LookbackWindow
    /\ \E j \in (LookbackWindow + 1)..Len(history_data) :
           IsShock(history_data[j].value, history_data[j - LookbackWindow].value)

\* fewer than 15 price points
ShortHistory == Len(history_data) < 15

\* C13 as stated: for every history with fewer than 15 price points,
\* get_stock_news returns an empty result (no markers), not an error.
C13_ShortHistoryEmpty ==
    ShortHistory => pc # "raised" /\ (pc = "done" => returned = << >>)

\* C13 as amended: when at least one news-provider token is configured, for
\* every history with fewer than 15 price points get_stock_news returns an
\* empty result, not an error; it never gets past the (empty) ranking.
C13_ShortHistoryEmptyWithToken ==
    ShortHistory /\ ~NoTokens =>
        /\ pc \in {"start", "scan", "walk", "done"}
        /\ pc = "done" => returned = << >>
        /\ markers = << >>

\* the empty result was returned for a history of 14 points, after the sort
C13_Witness ==
    /\ ~NoTokens /\ pc = "done" /\ returned = << >>
    /\ Len(history_data) = 14 /\ Len(sorted_history) = 14

\* C14: for every price sequence shorter than 15 points the shock detector
\* produces no candidate: the scan loop body is never entered (the scan index
\* keeps its initial value) and no provider or classifier call follows.
C14_ShortHistoryNoCandidate ==
    ShortHistory =>
        /\ shocks = << >> /\ top_shocks = << >>
        /\ i \in {0, LookbackWindow}
        /\ pc \notin {"primary", "secondary", "enqueue", "collect", "raised"}
        /\ accepted = << >> /\ requests_log = << >>
        /\ shock_tasks = << >> /\ futures = << >> /\ svc_reply = << >>

\* a sequence of 14 points, the last 5% above the first, went through the
\* scan and the ranking without a candidate
C14_Witness ==
    /\ Len(sorted_history) = 14
    /\ sorted_history[14].value * 100 >= sorted_history[1].value * 105
    /\ pc = "walk" /\ top_shocks = << >>

\* the scan step records a shock
Records == pc = "scan" /\ Len(shocks') = Len(shocks) + 1

\* p holds the extreme value (lowest after a rise, highest after a fall) of
\* the points of sorted_history at positions S (1-based)
IsExtreme(p, S, jump) ==
    /\ p \in S
    /\ \A q \in S : IF jump THEN sorted_history[p].value <= sorted_history[q].value
                             ELSE sorted_history[p].value >= sorted_history[q].value

\* the candidate just recorded has the date and value of the point at p and a
\* window of one day on either side of it
RecordedFrom(p) ==
    LET rec == shocks'[Len(shocks')]
    IN  /\ rec.date = sorted_history[p].time
        /\ rec.value = sorted_history[p].value
        /\ rec.start_date = sorted_history[p].time - 1
        /\ rec.end_date = sorted_history[p].time + 1

\* the 14-point return at scan index i is positive
RiseAt(idx) ==
    sorted_history[idx + 1].value > sorted_history[idx - 14 + 1].value

\* C20: when the detector records a shock at scan index i, the
\* pivot is the minimum-value point among the 10 points ending with i
\* (indices i-9 .. i) if the 14-point return is positive, the maximum-value
\* point among them if it is negative; the candidate's date and value are the
\* pivot's and its window is pivot date - 1 day to pivot date + 1 day.
C20_PivotAmongTen ==
    [][Records =>
         \E p \in (i - 9 + 1)..(i + 1) :
             /\ IsExtreme(p, (i - 9 + 1)..(i + 1), RiseAt(i))
             /\ RecordedFrom(p)]_vars

-----------------------------------------------------------------------------
(* get_history and the flat-file marker cache: main.py 132-146, 420-445 *)

\* concurrent get_history requests (the endpoint is a plain def: the server
\* runs each request in a thread of its pool)
NumRequests == 2

Clients == 1..NumRequests

\* '<TICKER>_<PERIOD>' keys of the requests, and a key no request asks for
TickerKeys == {"AAPL_1y", "MSFT_1y"}
OtherKey == "TSLA_1y"

\* marker lists: one stored earlier, and those get_stock_news may return
StoredMarkers == << mock_markers[2] >>
NewsResults == { << >>, mock_markers }

\* length of the text json.dump writes for a dict, in units of the text of
\* one key; the text of a marker is about ten times as long
RECURSIVE TextLen(_, _)
TextLen(dict, keys) ==
    IF keys = {} THEN 1
    ELSE LET kk == CHOOSE x \in keys : TRUE
         IN  1 + 10 * Len(dict[kk]) + TextLen(dict, keys \ {kk})

\* news_cache.json: absent, empty (opened for writing, nothing written yet),
\* a JSON object, or bytes that json.load rejects; size: length of its text
File(state, entries, size) == [ state |-> state, entries |-> entries, size |-> size ]
NoFile == File("absent", EmptyDict, 0)
EmptyFile == File("empty", EmptyDict, 0)
JsonFile(entries) == File("json", entries, TextLen(entries, DOMAIN entries))

\* cache[key] = value on a dict
Put(dict, key, value) ==
    [ kk \in DOMAIN dict \cup {key} |-> IF kk = key THEN value ELSE dict[kk] ]

\* the files a run may start with: none, or one written by earlier requests
InitialFiles ==
    { NoFile,
      JsonFile(Put(EmptyDict, OtherKey, StoredMarkers)),
      JsonFile(Put(Put(EmptyDict, OtherKey, StoredMarkers), "AAPL_1y", StoredMarkers)) }

\* a request that has not started; found: get_stock_history yields a history
NewRequest(key, refresh, found) ==
    [ pc |-> "start", ticker_key |-> key, refresh |-> refresh, found |-> found,
      cache |-> EmptyDict, news_markers |-> << >>, status |-> 0,
      present |-> FALSE,      \* the key was in the cache as loaded
      calls |-> 0,            \* calls of get_stock_news
      saves |-> 0,            \* completed writes of the file
      before |-> NoFile,      \* the file when save_cache opened it
      after |-> NoFile ]      \* the file when save_cache closed it

\* 132-139: {} when the file is absent or json.load fails
LoadCache(file) == IF file.state = "json" THEN file.entries ELSE EmptyDict

\* 430: not refresh and ticker_key in cache
IsHit(refresh, key, cache) == ~refresh /\ key \in DOMAIN cache

\* 143-144: the file after json.dump and close.  The file was truncated when
\* this request opened it, and the text is written from offset 0: if another
\* request has written a longer text since, the end of that text stays after
\* this one's and json.load rejects the file.
AfterDump(file, cache) ==
    IF TextLen(cache, DOMAIN cache) >= file.size
        THEN JsonFile(cache)
        ELSE File("corrupt", EmptyDict, file.size)

\* get_stock_news is not called (the reasoning-service client apart)
NewsAtRest ==
    /\ marketaux_token = FALSE /\ alpha_vantage_key = FALSE
    /\ history_data = << >> /\ cutoff_date = 0 /\ pc = "idle"
    /\ sorted_history = << >> /\ i = 0 /\ shocks = << >> /\ top_shocks = << >>
    /\ k = 0 /\ existing_dates = << >> /\ news_list = << >> /\ response = NoReply
    /\ shock_tasks = << >> /\ futures = << >> /\ analysis = << >>
    /\ svc_reply = << >> /\ markers = << >> /\ returned = << >>
    /\ requests_log = << >> /\ accepted = << >> /\ budget = 0

\* the requests a run may make: any key, with or without refresh, with or
\* without a history for the ticker
RequestInputs ==
    { NewRequest(key, refresh, found) :
        key \in TickerKeys, refresh \in BOOLEAN, found \in BOOLEAN }

NewsIdle == client = FALSE /\ NewsAtRest

\* the first request takes any input; the requests that run beside it are
\* plain ones (no refresh, history found) with any key
InitHistory ==
    /\ cache_file \in InitialFiles
    /\ hist \in { h \in [ Clients -> RequestInputs ] :
                     \A r \in Clients : r > 1 => ~h[r].refresh /\ h[r].found }
    /\ NewsIdle /\ TimeoutIdle /\ MemoIdle /\ RatioIdle

outside_file == << news_vars, timeout_vars, memo_vars, ratio_vars >>

\* 423-425: get_stock_history; no history: HTTPException(404), which the
\* handler's own `except Exception` turns into a 500
GetHistory(r) ==
    /\ hist[r].pc = "start"
    /\ IF hist[r].found
          THEN hist' = [hist EXCEPT ![r].pc = "load"]
          ELSE hist' = [hist EXCEPT ![r].pc = "done", ![r].status = 500]
    /\ UNCHANGED << cache_file, outside_file >>

\* 428-431: cache = load_cache(); the hit returns the stored list
Load(r) ==
    /\ hist[r].pc = "load"
    /\ LET cache == LoadCache(cache_file)
           key == hist[r].ticker_key
       IN  IF IsHit(hist[r].refresh, key, cache)
             THEN hist' = [hist EXCEPT ![r].cache = cache,
                                       ![r].present = key \in DOMAIN cache,
                                       ![r].news_markers = cache[key],
                                       ![r].status = 200, ![r].pc = "done"]
             ELSE hist' = [hist EXCEPT ![r].cache = cache,
                                       ![r].present = key \in DOMAIN cache,
                                       ![r].pc = "news"]
    /\ UNCHANGED << cache_file, outside_file >>

\* 433-434: get_stock_news returns; cache[ticker_key] = news_markers
News(r) ==
    /\ hist[r].pc = "news"
    /\ \E m \in NewsResults :
           hist' = [hist EXCEPT ![r].news_markers = m,
                                ![r].cache = Put(hist[r].cache, hist[r].ticker_key, m),
                                ![r].calls = hist[r].calls + 1,
                                ![r].pc = "open"]
    /\ UNCHANGED << cache_file, outside_file >>

\* 433: get_stock_news raises; the handler answers 500
NewsRaises(r) ==
    /\ hist[r].pc = "news"
    /\ hist' = [hist EXCEPT ![r].calls = hist[r].calls + 1,
                             ![r].status = 500, ![r].pc = "done"]
    /\ UNCHANGED << cache_file, outside_file >>

\* 143: open(CACHE_FILE, 'w') truncates the file
SaveOpen(r) ==
    /\ hist[r].pc = "open"
    /\ hist' = [hist EXCEPT ![r].before = cache_file, ![r].pc = "dump"]
    /\ cache_file' = EmptyFile
    /\ UNCHANGED outside_file

\* 143, 145-146: open raises (no permission, no space); save_cache prints
\* the error and returns; 438-443: the response
SaveFails(r) ==
    /\ hist[r].pc = "open"
    /\ hist' = [hist EXCEPT ![r].before = cache_file, ![r].status = 200,
                             ![r].pc = "done"]
    /\ UNCHANGED << cache_file, outside_file >>

\* 144: json.dump and close; 438-443: the response
SaveDump(r) ==
    /\ hist[r].pc = "dump"
    /\ LET f == AfterDump(cache_file, hist[r].cache)
       IN  /\ cache_file' = f
           /\ hist' = [hist EXCEPT ![r].after = f, ![r].saves = hist[r].saves + 1,
                                    ![r].status = 200, ![r].pc = "done"]
    /\ UNCHANGED outside_file

NextHistory ==
    \/ \E r \in Clients : GetHistory(r)
    \/ \E r \in Clients : Load(r)
    \/ \E r \in Clients : News(r)
    \/ \E r \in Clients : NewsRaises(r)
    \/ \E r \in Clients : SaveOpen(r)
    \/ \E r \in Clients : SaveFails(r)
    \/ \E r \in Clients : SaveDump(r)

SpecHistory == InitHistory /\ [][NextHistory]_vars

\* the entries a reader finds under the keys other than key are the same in
\* the files f and g
SameOtherEntries(f, g, key) ==
    LET df == LoadCache(f)
        dg == LoadCache(g)
    IN  \A kk \in (DOMAIN df \cup DOMAIN dg) \ {key} :
            kk \in DOMAIN df /\ kk \in DOMAIN dg /\ df[kk] = dg[kk]

\* the request got its history and was answered after the cache logic
Answered(r) == hist[r].pc = "done" /\ hist[r].found /\ hist[r].status = 200

\* C15: the flat-file marker cache is read-through.  A request with refresh
\* false whose key is present returns the stored list, does not call
\* get_stock_news and does not write the file; any other request calls
\* get_stock_news once, and when its save_cache has written the file, the
\* file holds the result under the key and the entries of all other keys are
\* as they were in the file (absent or readable) when the write began.
C15_ReadThrough ==
    \A r \in DOMAIN hist :
        /\ hist[r].present /\ ~hist[r].refresh =>
               /\ hist[r].pc \in {"lookup", "done"}
               /\ hist[r].calls = 0 /\ hist[r].saves = 0
               /\ hist[r].pc = "done" =>
                      /\ hist[r].status = 200
                      /\ hist[r].news_markers = hist[r].cache[hist[r].ticker_key]
        /\ Answered(r) /\ ~(hist[r].present /\ ~hist[r].refresh) =>
               /\ hist[r].calls = 1
               /\ hist[r].saves = 1 =>
                      /\ hist[r].after.state = "json"
                      /\ hist[r].ticker_key \in DOMAIN hist[r].after.entries
                      /\ hist[r].after.entries[hist[r].ticker_key] = hist[r].news_markers
                      /\ hist[r].before.state \in {"absent", "json"} =>
                             SameOtherEntries(hist[r].before, hist[r].after,
                                              hist[r].ticker_key)

-----------------------------------------------------------------------------
(* generate_fundamental_analysis: ai_service.py 188-239 *)

\* future.result(timeout=25), in seconds
ResultTimeout == 25

\* how _call_gemini may end: response.text is JSON, is other text, or the
\* call raises
CallOutcomes == {"json", "text", "raised"}

\* 217-226, 237-239: what the function returns once the call has ended in time
Parsed(outcome) == IF outcome = "json" THEN "report" ELSE "empty"

InitTimeout ==
    /\ client \in BOOLEAN
    /\ fa_pc = "start" /\ future = "none" /\ waited = 0 /\ fa_result = "none"
    /\ NewsAtRest /\ FileIdle /\ MemoIdle /\ RatioIdle

outside_timeout == << news_vars, file_vars, memo_vars, ratio_vars >>

\* 192-193, 214-215: no client: {}; else submit _call_gemini to a new pool
CallGemini ==
    /\ fa_pc = "start"
    /\ IF client
          THEN /\ future' = "running"
               /\ fa_pc' = "await"
               /\ UNCHANGED fa_result
          ELSE /\ fa_result' = "empty"
               /\ fa_pc' = "done"
               /\ UNCHANGED future
    /\ UNCHANGED << waited, outside_timeout >>

\* a second passes in future.result
Tick ==
    /\ fa_pc = "await" /\ future = "running" /\ waited < ResultTimeout
    /\ waited' = waited + 1
    /\ UNCHANGED << fa_pc, future, fa_result, outside_timeout >>

\* the reasoning service answers, or the call raises, in the pool thread
Complete ==
    /\ future = "running"
    /\ \E outcome \in CallOutcomes : future' = outcome
    /\ UNCHANGED << fa_pc, waited, fa_result, outside_timeout >>

\* 216-226, 237-239: future.result returns or re-raises in time; the pool
\* has no running thread left, so leaving the with block does not wait
InTime ==
    /\ fa_pc = "await" /\ future \in CallOutcomes
    /\ fa_result' = Parsed(future)
    /\ fa_pc' = "done"
    /\ UNCHANGED << future, waited, outside_timeout >>

\* 216: future.result raises TimeoutError after 25 seconds; the exception
\* leaves the with block through the executor's __exit__
TimedOut ==
    /\ fa_pc = "await" /\ future = "running" /\ waited = ResultTimeout
    /\ fa_pc' = "exit"
    /\ UNCHANGED << future, waited, fa_result, outside_timeout >>

\* 214, 229-236: __exit__ is shutdown(wait=True): it returns when the pool
\* thread has ended; only then does the except clause build the sentinel
LeaveWith ==
    /\ fa_pc = "exit" /\ future \in CallOutcomes
    /\ fa_result' = "timed out"
    /\ fa_pc' = "done"
    /\ UNCHANGED << future, waited, outside_timeout >>

NextTimeout ==
    \/ CallGemini
    \/ Tick
    \/ Complete
    \/ InTime
    \/ TimedOut
    \/ LeaveWith

\* the caller's thread and the clock go on; nothing makes the reasoning
\* service answer
SpecTimeout ==
    /\ InitTimeout /\ [][NextTimeout]_vars
    /\ WF_vars(CallGemini) /\ WF_vars(Tick) /\ WF_vars(InTime)
    /\ WF_vars(TimedOut) /\ WF_vars(LeaveWith)

\* C16: generate_fundamental_analysis does not block indefinitely: once the
\* call has not returned within the timeout, the function returns the
\* 'timed out' sentinel, even when the underlying call never completes.
C16_ReturnsAfterTimeout ==
    (fa_pc = "await" /\ future = "running" /\ waited = ResultTimeout)
        ~> (fa_pc = "done" /\ fa_result \in {"timed out", "report", "empty"})

-----------------------------------------------------------------------------
(* The in-process caches: ANALYSIS_CACHE of analyze_stock (main.py 382-418) *)
(* and EVENT_CACHE of get_major_events (stock_data.py 585-646), for the     *)
(* requests of one ticker.  Both functions read and write their dict        *)
(* without a lock; one dict operation is atomic.                            *)

ANALYSIS_CACHE_TTL == 1800
EVENT_CACHE_TTL == 86400

Caches == {"analysis", "events"}

TTL(cache) == IF cache = "analysis" THEN ANALYSIS_CACHE_TTL ELSE EVENT_CACHE_TTL

\* the readings of time.time() of a run: a start, a second later, and the
\* first two readings at which an entry stored at the start has expired
Times(cache) == {0, 1, TTL(cache), TTL(cache) + 1}

\* what request r computes: the provider data and what is derived from it
\* (financials and narrative; the events and their colours).  0 stands for a
\* request that ended before the run.
Value(r) == [ source |-> r, derived |-> r ]

\* the entry is updated in place
CacheEntryInPlace(slot, timestamp, value) ==
    IF slot = << >> THEN << [ timestamp |-> timestamp, data |-> value ] >>
    ELSE << [ slot[1] EXCEPT !.data = value ] >>

\* 410-413 / 637-640: the dict display is built, then bound to the key: the
\* slot holds the new entry (<< >>: the key is absent)
CacheEntry(slot, timestamp, value) == << [ timestamp |-> timestamp, data |-> value ] >>

\* 393 / 597: current_time - cached['timestamp'] < TTL
Fresh(current_time, entry, cache) == current_time - entry.timestamp < TTL(cache)

NewLookup ==
    [ pc |-> "start", current_time |-> 0, cached_entry |-> << >>,
      stored |-> FALSE, returned |-> << >>, status |-> "none" ]

InitMemo ==
    /\ which \in Caches
    /\ now = 0
    /\ CACHE \in { << >>, CacheEntry(<< >>, 0, Value(0)) }
    /\ memo = [ r \in Clients |-> NewLookup ]
    /\ NewsIdle /\ FileIdle /\ TimeoutIdle /\ RatioIdle

outside_memo == << news_vars, file_vars, timeout_vars, ratio_vars >>

\* time passes
Advance ==
    /\ \E t \in Times(which) : t > now /\ now' = t
    /\ UNCHANGED << which, CACHE, memo, outside_memo >>

\* 388 / 594: current_time = time.time()
Begin(r) ==
    /\ memo[r].pc = "start"
    /\ memo' = [memo EXCEPT ![r].current_time = now, ![r].pc = "check"]
    /\ UNCHANGED << which, now, CACHE, outside_memo >>

\* 391 / 595: ticker in CACHE
Check(r) ==
    /\ memo[r].pc = "check"
    /\ memo' = [memo EXCEPT ![r].pc = IF CACHE # << >> THEN "read" ELSE "compute"]
    /\ UNCHANGED << which, now, CACHE, outside_memo >>

\* 392-395 / 596-599: cached_entry = CACHE[ticker]; a fresh entry is served
ReadEntry(r) ==
    /\ memo[r].pc = "read"
    /\ CACHE # << >>        \* no code removes a key: the subscript finds it
    /\ IF Fresh(memo[r].current_time, CACHE[1], which)
          THEN memo' = [memo EXCEPT ![r].cached_entry = CACHE,
                                    ![r].returned = << CACHE[1].data >>,
                                    ![r].status = "served", ![r].pc = "done"]
          ELSE memo' = [memo EXCEPT ![r].cached_entry = CACHE, ![r].pc = "compute"]
    /\ UNCHANGED << which, now, CACHE, outside_memo >>

\* 397-416 / 601-642: the value is computed, stored and returned
Store(r) ==
    /\ memo[r].pc = "compute"
    /\ CACHE' = CacheEntry(CACHE, memo[r].current_time, Value(r))
    /\ memo' = [memo EXCEPT ![r].stored = TRUE, ![r].returned = << Value(r) >>,
                             ![r].status = "computed", ![r].pc = "done"]
    /\ UNCHANGED << which, now, outside_memo >>

\* 398-400, 417-418 / 604-605, 643-646: no data or an exception: nothing is
\* stored (HTTP 500 from analyze_stock, [] from get_major_events)
ComputeFails(r) ==
    /\ memo[r].pc = "compute"
    /\ memo' = [memo EXCEPT ![r].status = "failed", ![r].pc = "done"]
    /\ UNCHANGED << which, now, CACHE, outside_memo >>

NextMemo ==
    \/ Advance
    \/ \E r \in Clients : Begin(r)
    \/ \E r \in Clients : Check(r)
    \/ \E r \in Clients : ReadEntry(r)
    \/ \E r \in Clients : Store(r)
    \/ \E r \in Clients : ComputeFails(r)

SpecMemo == InitMemo /\ [][NextMemo]_vars

\* the requests that have stored their value
Writers == { r \in DOMAIN memo : memo[r].stored }

\* a complete {timestamp, value} pair written by request r
WrittenBy(entry, r) ==
    entry = [ timestamp |-> memo[r].current_time, data |-> Value(r) ]

\* the entry left by a request that ended before the run
Earlier(entry) == entry = [ timestamp |-> 0, data |-> Value(0) ]

\* C17: for the two unlocked in-process caches, any interleaving of
\* concurrent requests for the same ticker causes at most duplicate
\* recomputation: the cache entry for the ticker is at all times, and so after
\* all requests have finished, a complete {timestamp, value} pair written by
\* one request (the latest to store, if any has), and every request returned a
\* value computed wholly by a single request: its own, or one read from such
\* a pair.
C17_RacesOnlyRecompute ==
    /\ CACHE # << >> =>
           /\ Len(CACHE) = 1
           /\ DOMAIN CACHE[1] = {"timestamp", "data"}
           /\ Earlier(CACHE[1]) \/ \E r \in Writers : WrittenBy(CACHE[1], r)
           /\ Writers # {} => ~Earlier(CACHE[1])
    /\ \A r \in DOMAIN memo :
           /\ memo[r].cached_entry # << >> =>
                  \/ Earlier(memo[r].cached_entry[1])
                  \/ \E q \in Writers : WrittenBy(memo[r].cached_entry[1], q)
           /\ memo[r].status = "computed" =>
                  memo[r].stored /\ memo[r].returned = << Value(r) >>
           /\ memo[r].status = "served" =>
                  /\ memo[r].returned = << memo[r].cached_entry[1].data >>
                  /\ \E q \in Writers \cup {0} : memo[r].returned = << Value(q) >>
           /\ memo[r].status = "failed" => ~memo[r].stored /\ memo[r].returned = << >>
           /\ memo[r].returned # << >> =>
                  memo[r].returned[1].source = memo[r].returned[1].derived

\* all requests are done; two of them found no fresh entry and both computed
\* and stored (duplicate recomputation), a third outcome being a request
\* served from the entry one of them wrote
C17_Witness ==
    /\ \A r \in DOMAIN memo : memo[r].pc = "done"
    /\ \E r, q \in Writers :
           /\ r # q
           /\ memo[r].current_time = memo[q].current_time
           /\ WrittenBy(CACHE[1], q)

-----------------------------------------------------------------------------
(* The ratio helpers get_ps_ratio_from_info and safe_divide                 *)
(* (stock_data.py 31-43), applied to drawn arguments.                       *)

\* A Python number is the fraction num/den (den > 0) and its type; None is
\* the empty sequence and a number x is << x >>.
None == << >>

PyInt(n) == << [ num |-> n, den |-> 1, kind |-> "int" ] >>

PyFloat(n, d) == << [ num |-> n, den |-> d, kind |-> "float" ] >>

\* bool(x): None and zero are false
Truthy(x) == x # None /\ x[1].num # 0

\* a or b
PyOr(a, b) == IF Truthy(a) THEN a ELSE b

\* dict.get(key, default)
Get(dict, key, default) == IF key \in DOMAIN dict THEN dict[key] ELSE default

\* float(x)
Float(x) == << [ x[1] EXCEPT !.kind = "float" ] >>

RECURSIVE GCD(_, _)
GCD(a, b) == IF b = 0 THEN a ELSE GCD(b, a % b)

\* the float nearest n/d, as a fraction in lowest terms
Quotient(n, d) ==
    LET g == GCD(Abs(n), Abs(d))
        sign == IF d < 0 THEN -1 ELSE 1
    IN  PyFloat(sign * (n \div g), sign * (d \div g))

Returns(x) == [ raised |-> "", value |-> x ]

Raises(error) == [ raised |-> error, value |-> None ]

\* a / b
TrueDiv(a, b) ==
    IF a = None \/ b = None THEN Raises("TypeError")
    ELSE IF b[1].num = 0 THEN Raises("ZeroDivisionError")
    ELSE Returns(Quotient(a[1].num * b[1].den, a[1].den * b[1].num))

\* only None is guarded
safe_divide_none_only(n, d) ==
    IF d = None THEN Returns(PyFloat(0, 1)) ELSE TrueDiv(n, d)

\* 40-43
safe_divide(n, d) ==
    IF d = None \/ d[1].num = 0 THEN Returns(PyFloat(0, 1)) ELSE TrueDiv(n, d)

\* the sign of ps is not tested
get_ps_ratio_any_sign(inf, rev) ==
    LET ps == PyOr(PyOr(Get(inf, "priceToSalesTrailing12Months", None),
                        Get(inf, "trailingPS", None)), None)
        market_cap == Get(inf, "marketCap", PyInt(0))
    IN  IF Truthy(ps) THEN Returns(Float(ps))
        ELSE IF Truthy(market_cap) /\ Truthy(rev) /\ rev[1].num > 0
          THEN LET q == safe_divide(market_cap, rev)
               IN  IF q.raised = "" THEN Returns(Float(q.value)) ELSE q
        ELSE Returns(PyFloat(0, 1))

\* 31-38
get_ps_ratio_from_info(inf, rev) ==
    LET ps == PyOr(PyOr(Get(inf, "priceToSalesTrailing12Months", None),
                        Get(inf, "trailingPS", None)), None)
        market_cap == Get(inf, "marketCap", PyInt(0))
    IN  IF Truthy(ps) /\ ps[1].num > 0 THEN Returns(Float(ps))
        ELSE IF Truthy(market_cap) /\ Truthy(rev) /\ rev[1].num > 0
          THEN LET q == safe_divide(market_cap, rev)
               IN  IF q.raised = "" THEN Returns(Float(q.value)) ELSE q
        ELSE Returns(PyFloat(0, 1))

\* the arguments drawn
InfoKeys == {"priceToSalesTrailing12Months", "trailingPS", "marketCap"}

InfoValues == { None, PyInt(-1), PyInt(0), PyFloat(5, 2), PyInt(5) }

Infos == UNION { [ keys -> InfoValues ] : keys \in SUBSET InfoKeys }

Revenues == { None, PyInt(0), PyInt(2), PyInt(-2) }

Numerators == { None, PyInt(0), PyInt(10), PyInt(-3), PyFloat(5, 2) }

Denominators == { None, PyInt(0), PyFloat(0, 1), PyInt(10), PyInt(4), PyInt(-2) }

InitRatio ==
    /\ \/ /\ ratio_pc = "get_ps_ratio_from_info"
          /\ info \in Infos /\ revenue_ttm \in Revenues
          /\ numerator = None /\ denominator = None
       \/ /\ ratio_pc = "safe_divide"
          /\ numerator \in Numerators /\ denominator \in Denominators
          /\ info = EmptyDict /\ revenue_ttm = None
    /\ ratio_result = << >>
    /\ NewsIdle /\ FileIdle /\ TimeoutIdle /\ MemoIdle

outside_ratio == << news_vars, file_vars, timeout_vars, memo_vars >>

GetPsRatio ==
    /\ ratio_pc = "get_ps_ratio_from_info"
    /\ ratio_result' = << get_ps_ratio_from_info(info, revenue_ttm) >>
    /\ ratio_pc' = "ps done"
    /\ UNCHANGED << info, revenue_ttm, numerator, denominator, outside_ratio >>

SafeDivide ==
    /\ ratio_pc = "safe_divide"
    /\ ratio_result' = << safe_divide(numerator, denominator) >>
    /\ ratio_pc' = "divide done"
    /\ UNCHANGED << info, revenue_ttm, numerator, denominator, outside_ratio >>

NextRatio == GetPsRatio \/ SafeDivide

SpecRatio == InitRatio /\ [][NextRatio]_vars

\* x is a number equal to n/d
IsNumber(x, n, d) == x # None /\ x[1].num * d = n * x[1].den

\* the result is the number a / b (a, b numbers, b not zero)
ReturnsRatio(result, a, b) ==
    /\ result.raised = ""
    /\ IsNumber(result.value, a[1].num * b[1].den, a[1].den * b[1].num)

ReturnsZero(result) == result.raised = "" /\ IsNumber(result.value, 0, 1)

\* a value is present under the key
Present(dict, key) == key \in DOMAIN dict /\ dict[key] # None

\* the price-to-sales value the provider supplies: the one under
\* priceToSalesTrailing12Months, and the one under trailingPS when the first
\* is missing, None or 0
Supplied ==
    IF Present(info, "priceToSalesTrailing12Months")
         /\ info["priceToSalesTrailing12Months"][1].num # 0
      THEN info["priceToSalesTrailing12Months"]
    ELSE IF Present(info, "trailingPS") THEN info["trailingPS"]
    ELSE None

\* C18: get_ps_ratio_from_info returns the provider-supplied price-to-sales
\* value whenever it is present and positive; otherwise marketCap divided by
\* revenue_ttm when both are present and revenue_ttm > 0; otherwise 0.0.  It
\* raises in none of these cases.
C18_PsRatio ==
    ratio_pc = "ps done" =>
        LET result == ratio_result[1]
        IN  IF Supplied # None /\ Supplied[1].num > 0
              THEN /\ result.raised = ""
                   /\ IsNumber(result.value, Supplied[1].num, Supplied[1].den)
            ELSE IF /\ Present(info, "marketCap")
                    /\ revenue_ttm # None /\ revenue_ttm[1].num > 0
              THEN ReturnsRatio(result, info["marketCap"], revenue_ttm)
            ELSE ReturnsZero(result)

\* each of the three cases has been returned from: here the second, with a
\* provider value that is present but not positive: 5 / 2 is returned
C18_Witness ==
    /\ ratio_pc = "ps done"
    /\ Supplied = PyInt(-1)
    /\ Present(info, "marketCap")
    /\ info["marketCap"] = PyInt(5) /\ revenue_ttm = PyInt(2)
    /\ ratio_result[1] = Returns(PyFloat(5, 2))

\* C19: safe_divide returns 0.0 whenever the denominator is zero or None,
\* and numerator/denominator otherwise (so 0 for a zero numerator with a
\* non-zero denominator); it never raises a division error.  (With a None
\* numerator numerator/denominator is a TypeError.)
C19_SafeDivide ==
    ratio_pc = "divide done" =>
        LET result == ratio_result[1]
        IN  /\ result.raised # "ZeroDivisionError"
            /\ IF denominator = None \/ denominator[1].num = 0
                  THEN ReturnsZero(result)
                ELSE IF numerator = None THEN result.raised = "TypeError"
                ELSE ReturnsRatio(result, numerator, denominator)
            /\ (numerator # None /\ numerator[1].num = 0 /\ denominator # None)
                   => ReturnsZero(result)

\* a non-zero numerator has been divided by a float zero: 0.0 is returned
C19_Witness ==
    /\ ratio_pc = "divide done"
    /\ numerator = PyInt(10) /\ denominator = PyFloat(0, 1)
    /\ ratio_result[1] = Returns(PyFloat(0, 1))

-----------------------------------------------------------------------------
(* Further properties of get_stock_news, under Spec *)

\* the scan loop is about to run an iteration (174)
InScan == pc = "scan" /\ i < Len(sorted_history)

\* C21: the detector's scan index starts at 14 and strictly increases in
\* every iteration: by 14 after an iteration in which |return| >= 0.05 and a
\* shock is recorded, by 1 in every other iteration; hence the scan
\* terminates and the trigger indices of two recorded candidates differ by at
\* least 14.
C21_ScanStride ==
    [][ /\ (pc = "start" /\ pc' = "scan") => i' = 14
        /\ InScan =>
              \/ i' = i + 14 /\ Len(shocks') = Len(shocks) + 1 /\ pc' = "scan"
              \/ i' = i + 1 /\ shocks' = shocks /\ pc' = "scan" ]_vars

\* json.loads rejects the stripped text (the empty text included)
Unparsable(r) == r.kind = "text"

\* a JSON object whose summary is absent, empty or blank
EmptySummary(r) == r.kind = "json" /\ r.summary \in {Missing, "", "   "}

\* C22 as stated: if the reasoning service returns unparsable or empty
\* output, analyze_price_shock returns the fixed fallback string as the
\* summary and sentiment neutral; and if the parsed reply has an empty
\* summary, the summary is replaced by the fallback string and the sentiment
\* reported is neutral.
C22_FallbackAndNeutral ==
    \A t \in Tasks : (Finished(t) /\ client) =>
        /\ Unparsable(svc_reply[t]) =>
               analysis[t].summary = Fallback /\ analysis[t].sentiment = "neutral"
        /\ EmptySummary(svc_reply[t]) =>
               analysis[t].summary = Fallback /\ analysis[t].sentiment = "neutral"

\* C22, amended: output that json.loads rejects gives sentiment neutral and,
\* as the summary, the stripped text itself, or the fallback string when the
\* stripped text is empty; a parsed reply with an empty summary gets the
\* fallback string as its summary and keeps the sentiment it carries (none
\* when it carries none).
C22_FallbackOrText ==
    \A t \in Tasks : (Finished(t) /\ client) =>
        /\ Unparsable(svc_reply[t]) =>
               /\ analysis[t].sentiment = "neutral"
               /\ analysis[t].headline = "AI Analysis"
               /\ analysis[t].summary =
                      IF Strip(svc_reply[t].text) = "" THEN Fallback
                      ELSE Strip(svc_reply[t].text)
        /\ EmptySummary(svc_reply[t]) =>
               /\ analysis[t].summary = Fallback
               /\ analysis[t].sentiment = svc_reply[t].sentiment
               /\ analysis[t].headline = svc_reply[t].headline

\* a non-empty text that is not JSON, and a JSON reply with a blank summary
\* and sentiment negative, were both turned into results
C22_Witness ==
    \E t, u \in Tasks :
        /\ Finished(t) /\ Unparsable(svc_reply[t]) /\ Strip(svc_reply[t].text) # ""
        /\ Finished(u) /\ EmptySummary(svc_reply[u]) /\ svc_reply[u].sentiment = "negative"
        /\ analysis[u].sentiment = "negative"

\* C23: a shock event whose merged headline list is empty after both
\* providers were consulted is dropped before dispatch: it adds no task and the
\* walk moves on; every task handed to the classifier carries at least one
\* headline, and every classifier call is made for such a task.
C23_NoNewsNoTask ==
    [][ /\ (pc = "enqueue" /\ news_list = << >>) =>
               /\ shock_tasks' = shock_tasks
               /\ k' = k + 1 /\ pc' = "walk"
        /\ \A t \in 1..Len(shock_tasks') : Len(shock_tasks'[t].news) >= 1
        /\ Len(futures') \in {0, Len(shock_tasks')}
        /\ \A t \in 1..Len(svc_reply') :
               svc_reply'[t] # NotAsked => Len(shock_tasks'[t].news) >= 1 ]_vars

\* the tasks were dispatched; an event that passed the deduplication test
\* had no news after both providers were asked and is not among them
C23_Witness ==
    /\ pc = "collect"
    /\ Len(shock_tasks) >= 1
    /\ Len(accepted) > Len(shock_tasks)
    /\ \E a, b \in 1..Len(requests_log) :
           /\ requests_log[a].provider = "marketaux"
           /\ requests_log[b].provider = "alphavantage"
           /\ requests_log[a].event = requests_log[b].event
           /\ \A t \in 1..Len(shock_tasks) : shock_tasks[t].date # requests_log[a].date

\* the lists hold the same items, each as often
SameItems(s, t) ==
    /\ Len(s) = Len(t)
    /\ \A x \in Range(s) \cup Range(t) :
           Cardinality({ j \in 1..Len(s) : s[j] = x }) = Cardinality({ j \in 1..Len(t) : t[j] = x })

\* relevance score descending, publication time descending among equal scores
Descending(s) ==
    \A a, b \in 1..Len(s) : a < b =>
        \/ s[a].relevance_score > s[b].relevance_score
        \/ /\ s[a].relevance_score = s[b].relevance_score
           /\ (s[a].date # NoDate /\ s[b].date # NoDate) => s[a].date[1] >= s[b].date[1]

\* the items of a reply that are objects with a match score
Scored(r) == { j \in 1..Len(r.items) : r.items[j].dict /\ ~r.items[j].scoreNull }

\* C24: only primary items whose match score exceeds 0.7 are kept (all of
\* them when the body is well formed); the items of the secondary provider
\* are appended to the primary items, none of which is removed or replaced,
\* each with the fixed relevance score 0.5; the list handed to the classifier
\* holds the merged items sorted by relevance score descending with
\* publication time descending as tie-break, so every kept primary item
\* precedes every secondary item.
C24_MergedAndSorted ==
    [][ /\ (pc = "secondary" /\ marketaux_token) =>
               LET r == ReplyNow("marketaux") IN
               /\ \A j \in 1..Len(news_list) :
                      /\ news_list[j].relevance_score > 7
                      /\ \E m \in Scored(r) :
                             /\ r.items[m].score = news_list[j].relevance_score
                             /\ r.items[m].date = news_list[j].date
               /\ (~Failure("marketaux", r)) =>
                      Len(news_list) = Cardinality({ m \in Scored(r) : r.items[m].score > 7 })
        /\ (pc = "secondary" /\ pc' = "enqueue") =>
               /\ Len(news_list') >= Len(news_list)
               /\ SubSeq(news_list', 1, Len(news_list)) = news_list
               /\ \A j \in (Len(news_list) + 1)..Len(news_list') :
                      news_list'[j].relevance_score = 5
        /\ (pc = "enqueue" /\ Len(shock_tasks') = Len(shock_tasks) + 1) =>
               LET news == shock_tasks'[Len(shock_tasks')].news IN
               /\ SubSeq(shock_tasks', 1, Len(shock_tasks)) = shock_tasks
               /\ SameItems(news, news_list)
               /\ Descending(news)
               /\ \A a, b \in 1..Len(news) :
                      (news[a].relevance_score > 7 /\ news[b].relevance_score = 5) => a < b ]_vars

\* a task was queued whose list merges two kept primary items and two
\* secondary items, each pair received in ascending order of time
C24_Witness ==
    \E t \in 1..Len(shock_tasks) :
        shock_tasks[t].news = << NewsItem(9, <<2>>), NewsItem(8, <<1>>),
                                 NewsItem(5, <<3>>), NewsItem(5, <<1>>) >>

\* the tasks whose result the collector admits
AdmittedTasks == { t \in Tasks : Admitted(analysis[t]) }

\* C25: classifier results are consumed in completion order: the coordinating
\* thread takes a future only once it is done, whatever its position in the
\* submission order.  The marker list is appended to only by the coordinating
\* thread, by one marker, built from the result it has just retrieved; a
\* worker writes the result of its own task and nothing else.  When the
\* function returns, the markers are those of the admitted results, one for
\* each: none is lost or duplicated and the set depends on the results only.
C25_AppendAfterJoin ==
    [][ /\ \A t \in 1..Len(futures) :
               (Len(futures') = Len(futures) /\ futures'[t] # futures[t]) =>
                   IF futures'[t] \in {"emitted", "dropped"}
                     THEN /\ futures[t] = "done"
                          /\ analysis' = analysis
                          /\ markers' = IF futures'[t] = "emitted"
                                          THEN Append(markers, MarkerOf(analysis[t]))
                                          ELSE markers
                     ELSE /\ markers' = markers /\ existing_dates' = existing_dates
                          /\ shock_tasks' = shock_tasks
                          /\ \A u \in 1..Len(futures) : u # t =>
                                 /\ futures'[u] = futures[u]
                                 /\ analysis'[u] = analysis[u]
        /\ markers' # markers =>
               \E t \in 1..Len(futures) : futures[t] = "done" /\ futures'[t] = "emitted"
        /\ (pc' = "done" /\ futures' # << >>) =>
               /\ returned' = markers'
               /\ Len(markers') = Cardinality(AdmittedTasks')
               /\ Range(markers') = { MarkerOf(analysis'[t]) : t \in AdmittedTasks' } ]_vars

\* two markers were returned, in the reverse of the order in which their
\* tasks were submitted
C25_Witness ==
    /\ pc = "done" /\ Len(returned) = 2 /\ Len(shock_tasks) = 2
    /\ returned[1].time = shock_tasks[2].date
    /\ returned[2].time = shock_tasks[1].date
    /\ shock_tasks[1].date # shock_tasks[2].date

\* colour and position by the sentiment as the statement gives them
StyleBySentiment(sentiment) ==
    CASE sentiment = "positive" -> << "#22c55e", "belowBar" >>
      [] sentiment = "negative" -> << "#ef4444", "aboveBar" >>
      [] OTHER                  -> << "#fbbf24", "aboveBar" >>

\* the collector accepts the result of task t: it passes the three tests
Accepted(t) == Finished(t) /\ Admitted(analysis[t])

\* C26: for every accepted classifier result the marker's colour and position
\* are determined by the sentiment alone: positive gives green (#22c55e) /
\* belowBar, negative gives red (#ef4444) / aboveBar, and any other or missing
\* sentiment gives amber (#fbbf24) / aboveBar.
C26_StyleBySentiment ==
    \A t \in Tasks : Accepted(t) =>
        /\ futures[t] = "emitted" =>
               \E j \in 1..Len(markers) :
                   /\ markers[j].time = analysis[t].shock_date
                   /\ markers[j].headline = analysis[t].summary
                   /\ << markers[j].color, markers[j].position >>
                          = StyleBySentiment(analysis[t].sentiment)
        /\ ~(pc = "raised" /\ futures[t] = "done" /\ analysis[t].sentiment \in {Missing, "null"})

\* the points of the history carry calendar dates, pairwise distinct and
\* strictly increasing
DailyDates ==
    /\ \A j \in 1..Len(history_data) : history_data[j].ok
    /\ \A a, b \in 1..Len(history_data) : a < b => history_data[a].time < history_data[b].time

\* the position in sorted_history of the point dated d
PositionOf(d) == CHOOSE p \in 1..Len(sorted_history) : sorted_history[p].time = d

\* C27: for a history whose points have pairwise distinct, strictly
\* increasing calendar dates, the pivot positions of any two candidates
\* recorded by the detector differ by at least 4 positions, so their pivot
\* dates are more than 3 days apart, whatever the deduplication walk does.
C27_PivotsFourApart ==
    DailyDates =>
        /\ \A a, b \in 1..Len(shocks) : a # b =>
               /\ Abs(PositionOf(shocks[a].date) - PositionOf(shocks[b].date)) >= 4
               /\ Abs(shocks[a].date - shocks[b].date) > 3
        /\ \A a, b \in 1..Len(shock_tasks) : a # b =>
               Abs(shock_tasks[a].date - shock_tasks[b].date) > 3
        /\ \A a, b \in 1..Len(markers) : a # b =>
               Abs(markers[a].time - markers[b].time) > 3

\* two candidates were recorded whose pivots are exactly 4 positions apart,
\* and both went through the walk
C27_Witness ==
    /\ DailyDates /\ Len(shocks) = 2 /\ Len(shock_tasks) = 2
    /\ Abs(PositionOf(shocks[1].date) - PositionOf(shocks[2].date)) = 4

\* C28: for every completion order of the workers, the marker list built by
\* the collector, which is the list returned, holds at most one marker per
\* dispatched shock task and every marker's time is the pivot date of a
\* dispatched task; hence the number of markers is at most the number of
\* tasks, which is at most 5.
C28_AtMostOnePerTask ==
    /\ Len(markers) <= Len(shock_tasks)
    /\ Len(shock_tasks) <= 5
    /\ Len(futures) \in {0, Len(shock_tasks)}
    /\ \A j \in 1..Len(markers) :
           LET d == markers[j].time IN
           /\ \E t \in 1..Len(futures) : shock_tasks[t].date = d /\ Collected(t)
           /\ Cardinality({ m \in 1..Len(markers) : markers[m].time = d })
                  <= Cardinality({ t \in 1..Len(shock_tasks) : shock_tasks[t].date = d })
    /\ (pc = "done" /\ ~NoTokens) => returned = markers

\* five tasks were dispatched and five markers returned, the first of them
\* for the task submitted last
C28_Witness ==
    /\ pc = "done" /\ Len(shock_tasks) = 5 /\ Len(returned) = 5
    /\ returned[1].time = shock_tasks[5].date
    /\ returned[1].time # shock_tasks[1].date

-----------------------------------------------------------------------------
(* Further properties of get_history, under SpecHistory *)

\* the request missed the cache, called get_stock_news and wrote the file
MissedAndSaved(r) ==
    /\ Answered(r) /\ ~hist[r].present
    /\ hist[r].calls = 1 /\ hist[r].saves = 1

\* C29: when two get_history requests for different '<TICKER>_<PERIOD>' keys
\* run concurrently and both miss the flat-file cache, then after both have
\* completed the cache file contains the marker lists of both keys: no update
\* of one request is lost to the other's load-modify-save of the whole file.
C29_NoLostUpdate ==
    \A r, q \in DOMAIN hist :
        (/\ hist[r].ticker_key # hist[q].ticker_key
         /\ MissedAndSaved(r) /\ MissedAndSaved(q)) =>
            /\ cache_file.state = "json"
            /\ hist[r].ticker_key \in DOMAIN cache_file.entries
            /\ hist[q].ticker_key \in DOMAIN cache_file.entries
            /\ cache_file.entries[hist[r].ticker_key] = hist[r].news_markers
            /\ cache_file.entries[hist[q].ticker_key] = hist[q].news_markers

\* C30: when get_stock_history yields no history for the ticker, the
\* get_history endpoint fails with HTTP status 404 'History not found' (the
\* 404 raised inside the handler reaches the client as 404, not as another
\* status), and neither get_stock_news is called nor the cache file written.
C30_NotFoundIs404 ==
    \A r \in DOMAIN hist :
        (hist[r].pc = "done" /\ ~hist[r].found) =>
            /\ hist[r].status = 404
            /\ hist[r].calls = 0
            /\ hist[r].saves = 0
            /\ hist[r].before = NoFile /\ hist[r].after = NoFile

====
